---- MODULE Spec2Model ----
(***************************************************************************)
(* Model of the Spotify ETL pipeline of src/pipeline.py: download, load,   *)
(* clean/merge, transform, persist to SQLite, report.  Tables are pandas   *)
(* DataFrames (an ordered list of column names and a list of rows), cells  *)
(* are typed values, text is a sequence of character codes so that         *)
(* parsing, formatting and SQLite's text comparison are computed.          *)
(***************************************************************************)
EXTENDS Integers, Sequences, FiniteSets, TLC

VARIABLES
    pc,                  \* position of main(): the stage it calls next, or "done"
    platform,            \* "nt" or "posix": how the literal "data\..." resolves
    disk,                \* the two CSV files at the path load_data reads
    albums,              \* main's local `albums`
    tracks,              \* main's local `tracks`
    cleaned_tracks,      \* main's local `cleaned_tracks`
    transformed_tracks,  \* main's local `transformed_tracks`
    db,                  \* table spotify_tracks of spotify.db
    df_labels,           \* result of the first report query
    df_tracks,           \* result of the second report query
    charts,              \* the PNG files saved so far
    log,                 \* the messages printed, in order
    calls,               \* the stages invoked, in order
    escaped              \* the exception that left main(), or "none"

vars == <<pc, platform, disk, albums, tracks, cleaned_tracks, transformed_tracks,
          db, df_labels, df_tracks, charts, log, calls, escaped>>

----------------------------------------------------------------------------
(* Bounds of the model. *)

MaxAlbums == 3
MaxTracks == 3

----------------------------------------------------------------------------
(* Cell values.  Every cell is a record of the same shape so that any two  *)
(* cells can be compared: k is the type, n the number, s the text (codes)  *)
(* or the <<year, month, day>> of a date.                                  *)

Null == [k |-> "null", n |-> 0, s |-> <<>>]
IntV(i) == [k |-> "int", n |-> i, s |-> <<>>]
FloatV(i) == [k |-> "float", n |-> i, s |-> <<>>]
BoolV(b) == [k |-> "bool", n |-> IF b THEN 1 ELSE 0, s |-> <<>>]
StrV(t) == [k |-> "str", n |-> 0, s |-> t]
DateV(y, m, d) == [k |-> "date", n |-> 0, s |-> <<y, m, d>>]

IsNull(c) == c.k = "null"

----------------------------------------------------------------------------
(* Text: sequences of ASCII codes. *)

IsDigit(ch) == ch >= 48 /\ ch =< 57
IsUpper(ch) == ch >= 65 /\ ch =< 90
IsLower(ch) == ch >= 97 /\ ch =< 122
IsCased(ch) == IsUpper(ch) \/ IsLower(ch)
IsSpace(ch) == ch = 32 \/ (ch >= 9 /\ ch =< 13)
ToUpper(ch) == IF IsLower(ch) THEN ch - 32 ELSE ch
ToLower(ch) == IF IsUpper(ch) THEN ch + 32 ELSE ch

RECURSIVE LStrip(_)
LStrip(t) == IF t # <<>> /\ IsSpace(Head(t)) THEN LStrip(Tail(t)) ELSE t

RECURSIVE RStrip(_)
RStrip(t) ==
    IF t # <<>> /\ IsSpace(t[Len(t)]) THEN RStrip(SubSeq(t, 1, Len(t) - 1)) ELSE t

(* str.strip() *)
Strip(t) == RStrip(LStrip(t))

(* str.title(): a cased character is upper-cased when it follows an        *)
(* uncased one (or starts the text), lower-cased otherwise.                *)
Title(t) ==
    [i \in 1..Len(t) |->
        IF i = 1 \/ ~IsCased(t[i - 1]) THEN ToUpper(t[i]) ELSE ToLower(t[i])]

(* Series.str.strip().str.title(): missing values stay missing. *)
StripTitle(c) == IF c.k = "str" THEN StrV(Title(Strip(c.s))) ELSE Null

(* The decimal digits of v, left-padded with zeros to `width` characters. *)
RECURSIVE Digits(_, _)
Digits(v, width) ==
    IF width = 0 THEN <<>> ELSE Append(Digits(v \div 10, width - 1), 48 + (v % 10))

RECURSIVE DigitsValue(_)
DigitsValue(t) ==
    IF t = <<>> THEN 0
    ELSE 10 * DigitsValue(SubSeq(t, 1, Len(t) - 1)) + (t[Len(t)] - 48)

AllDigits(t) == t # <<>> /\ \A i \in 1..Len(t) : IsDigit(t[i])

(* Lexicographic (memcmp) order of two texts: SQLite's BINARY collation. *)
RECURSIVE TextLE(_, _)
TextLE(a, b) ==
    IF a = <<>> THEN TRUE
    ELSE IF b = <<>> THEN FALSE
    ELSE IF Head(a) < Head(b) THEN TRUE
    ELSE IF Head(a) > Head(b) THEN FALSE
    ELSE TextLE(Tail(a), Tail(b))

----------------------------------------------------------------------------
(* Conversions of clean_data. *)

IsLeap(y) == (y % 4 = 0 /\ y % 100 # 0) \/ y % 400 = 0

DaysIn(y, m) ==
    IF m = 2 THEN (IF IsLeap(y) THEN 29 ELSE 28)
    ELSE IF m \in {4, 6, 9, 11} THEN 30 ELSE 31

(* "YYYY-MM-DD" *)
IsoDate(y, m, d) == Digits(y, 4) \o <<45>> \o Digits(m, 2) \o <<45>> \o Digits(d, 2)

(* pd.to_datetime(errors="coerce") of one cell: an ISO "YYYY-MM-DD" text   *)
(* naming a calendar day becomes that date, anything else NaT.             *)
ToDatetime(c) ==
    IF c.k = "date" THEN c
    ELSE IF c.k # "str" \/ Len(c.s) # 10 THEN Null
    ELSE LET t == c.s
             ys == SubSeq(t, 1, 4)
             ms == SubSeq(t, 6, 7)
             ds == SubSeq(t, 9, 10)
         IN  IF t[5] = 45 /\ t[8] = 45 /\ AllDigits(ys) /\ AllDigits(ms) /\ AllDigits(ds)
             THEN LET y == DigitsValue(ys)
                      m == DigitsValue(ms)
                      d == DigitsValue(ds)
                  IN  IF y >= 1 /\ m >= 1 /\ m =< 12 /\ d >= 1 /\ d =< DaysIn(y, m)
                      THEN DateV(y, m, d) ELSE Null
             ELSE Null

(* pd.to_numeric(errors="coerce") of one cell: a number stays, a text of   *)
(* digits is parsed, anything else becomes NaN.                            *)
ToNumeric(c) ==
    IF c.k \in {"int", "float"} THEN c
    ELSE IF c.k = "bool" THEN IntV(c.n)
    ELSE IF c.k = "str" /\ AllDigits(Strip(c.s)) THEN IntV(DigitsValue(Strip(c.s)))
    ELSE Null

(* .astype("Float64") / .astype("Int64") of a to_numeric result. *)
AsFloat64(c) == IF IsNull(c) THEN Null ELSE FloatV(c.n)
AsInt64(c) == IF IsNull(c) THEN Null ELSE IntV(c.n)

(* Mutant of AsBool: the nullable "boolean" dtype, which keeps NA. *)
AsBoolNullable(c) ==
    IF c.k = "bool" THEN c
    ELSE IF c.k = "null" THEN Null
    ELSE IF c.k = "str" THEN BoolV(c.s # <<>>)
    ELSE BoolV(c.n # 0)

(* .astype(bool) of one cell is Python's truth value: NaN, a non-empty     *)
(* text and a non-zero number are True.                                    *)
AsBool(c) ==
    IF c.k = "bool" THEN c
    ELSE IF c.k = "null" THEN BoolV(TRUE)
    ELSE IF c.k = "str" THEN BoolV(c.s # <<>>)
    ELSE IF c.k = "date" THEN BoolV(TRUE)
    ELSE BoolV(c.n # 0)

----------------------------------------------------------------------------
(* DataFrames.  None is Python's None, what a stage returns after it has   *)
(* caught an exception.                                                    *)

None == [isNone |-> TRUE, cols |-> <<>>, rows |-> <<>>]
MkTable(cols, rows) == [isNone |-> FALSE, cols |-> cols, rows |-> rows]

SeqSet(q) == {q[i] : i \in 1..Len(q)}
ColSet(t) == SeqSet(t.cols)
HasCol(t, c) == c \in ColSet(t)

(* df.rename(columns={old: new}): a column that is not there is ignored. *)
Rename(t, old, new) ==
    IF ~HasCol(t, old) THEN t
    ELSE LET nc == [i \in 1..Len(t.cols) |-> IF t.cols[i] = old THEN new ELSE t.cols[i]]
         IN  MkTable(nc,
                [i \in 1..Len(t.rows) |->
                    [c \in SeqSet(nc) |-> IF c = new THEN t.rows[i][old] ELSE t.rows[i][c]]])

(* df[[c1, ..., cn]] *)
Project(t, cs) ==
    MkTable(cs, [i \in 1..Len(t.rows) |-> [c \in SeqSet(cs) |-> t.rows[i][c]]])

(* The dtype pandas gives a column read from CSV decides whether the .str  *)
(* accessor exists: a non-empty column with no text in it is numeric.      *)
HasStrAccessor(t, c) ==
    t.rows = <<>> \/ \E i \in 1..Len(t.rows) : t.rows[i][c].k = "str"

----------------------------------------------------------------------------
(* pd.merge(left, right, on=key, how="left") *)

Overlap(left, right, key) == (ColSet(left) \cap ColSet(right)) \ {key}

(* A column both operands carry gets the suffix _x (left) or _y (right). *)
LeftName(left, right, key, c) ==
    IF c \in Overlap(left, right, key) THEN c \o "_x" ELSE c
RightName(left, right, key, c) ==
    IF c \in Overlap(left, right, key) THEN c \o "_y" ELSE c

RightOnly(right, key) == SelectSeq(right.cols, LAMBDA c : c # key)

MergeCols(left, right, key) ==
    [i \in 1..Len(left.cols) |-> LeftName(left, right, key, left.cols[i])]
    \o [i \in 1..Len(RightOnly(right, key)) |->
            RightName(left, right, key, RightOnly(right, key)[i])]

(* One result row: the left row joined with right row r, or with nulls     *)
(* when r is 0 (no match).                                                 *)
JoinRow(left, right, key, l, r) ==
    [c \in SeqSet(MergeCols(left, right, key)) |->
        IF \E lc \in ColSet(left) : LeftName(left, right, key, lc) = c
        THEN l[CHOOSE lc \in ColSet(left) : LeftName(left, right, key, lc) = c]
        ELSE IF r = 0 THEN Null
        ELSE right.rows[r][CHOOSE rc \in ColSet(right) \ {key} :
                                RightName(left, right, key, rc) = c]]

(* The rows for left row l: one per matching right row, in the right       *)
(* table's order, or a single row of nulls.                                *)
RECURSIVE MatchesFrom(_, _, _, _, _)
MatchesFrom(left, right, key, l, j) ==
    IF j > Len(right.rows) THEN <<>>
    ELSE (IF right.rows[j][key] = l[key]
          THEN <<JoinRow(left, right, key, l, j)>> ELSE <<>>)
         \o MatchesFrom(left, right, key, l, j + 1)

RowsFor(left, right, key, l) ==
    LET m == MatchesFrom(left, right, key, l, 1)
    IN  IF m = <<>> THEN <<JoinRow(left, right, key, l, 0)>> ELSE m

RECURSIVE MergeRowsFrom(_, _, _, _)
MergeRowsFrom(left, right, key, i) ==
    IF i > Len(left.rows) THEN <<>>
    ELSE RowsFor(left, right, key, left.rows[i]) \o MergeRowsFrom(left, right, key, i + 1)

MergeLeft(left, right, key) ==
    MkTable(MergeCols(left, right, key), MergeRowsFrom(left, right, key, 1))

----------------------------------------------------------------------------
(* clean_data(tracks, albums).  The value is what the call leaves behind:  *)
(* result (the table returned, None after a caught exception), tracks      *)
(* (the caller's tracks object after the call), error (the exception       *)
(* caught, "none" otherwise).                                              *)

AlbumCols == <<"track_id", "track_name", "release_date", "label", "duration_sec">>
CleanedCols == {"release_date", "duration_sec", "track_popularity", "explicit",
                "track_name", "label"}

(* tracks.rename(columns={"id": "track_id"}, inplace=True) *)
RenameTrackId(t) == Rename(t, "id", "track_id")

(* The conversions of one row, column by column. *)
CoerceRow(row) ==
    [c \in DOMAIN row |->
        CASE c = "release_date" -> ToDatetime(row[c])
          [] c = "duration_sec" -> AsFloat64(ToNumeric(row[c]))
          [] c = "track_popularity" -> AsInt64(ToNumeric(row[c]))
          [] c = "explicit" -> AsBool(row[c])
          [] c = "track_name" -> StripTitle(row[c])
          [] c = "label" -> StripTitle(row[c])
          [] OTHER -> row[c]]

Coerce(t) == MkTable(t.cols, [i \in 1..Len(t.rows) |-> CoerceRow(t.rows[i])])

CleanData(trk, alb) ==
    IF trk.isNone
    THEN [result |-> None, tracks |-> trk, error |-> "AttributeError"]
    ELSE LET t1 == RenameTrackId(trk)
         IN  IF alb.isNone
             THEN [result |-> None, tracks |-> t1, error |-> "TypeError"]
             ELSE IF ~(SeqSet(AlbumCols) \subseteq ColSet(alb)) \/ ~HasCol(t1, "track_id")
             THEN [result |-> None, tracks |-> t1, error |-> "KeyError"]
             ELSE LET m == MergeLeft(Project(alb, AlbumCols), t1, "track_id")
                  IN  IF ~(CleanedCols \subseteq ColSet(m))
                      THEN [result |-> None, tracks |-> t1, error |-> "KeyError"]
                      ELSE IF ~HasStrAccessor(m, "track_name") \/ ~HasStrAccessor(m, "label")
                      THEN [result |-> None, tracks |-> t1, error |-> "AttributeError"]
                      ELSE [result |-> Coerce(m), tracks |-> t1, error |-> "none"]

----------------------------------------------------------------------------
(* transform_data(tracks) *)

RadioMixMaxSec == 180
MinPopularity == 50

(* Series <= n and Series > n on a nullable column: NA compares to NA. *)
CellLE(c, n) == IF IsNull(c) THEN Null ELSE BoolV(c.n =< n)
CellGT(c, n) == IF IsNull(c) THEN Null ELSE BoolV(c.n > n)
(* Series == False *)
CellIsFalse(c) == IF IsNull(c) THEN Null ELSE BoolV(c.n = 0)

(* a & b on nullable booleans (Kleene logic). *)
KleeneAnd(a, b) ==
    IF a = BoolV(FALSE) \/ b = BoolV(FALSE) THEN BoolV(FALSE)
    ELSE IF IsNull(a) \/ IsNull(b) THEN Null
    ELSE BoolV(TRUE)

(* Mutant of RadioMix: a strict comparison. *)
RadioMixStrict(row) ==
    IF IsNull(row["duration_sec"]) THEN Null
    ELSE BoolV(row["duration_sec"].n < RadioMixMaxSec)

(* tracks["duration_sec"] <= 180 *)
RadioMix(row) == CellLE(row["duration_sec"], RadioMixMaxSec)

(* Mutant of KeepMask: popularity >= 50. *)
KeepMaskAtLeast(row) ==
    KleeneAnd(CellIsFalse(row["explicit"]),
              CellGT(row["track_popularity"], MinPopularity - 1))

(* (tracks["explicit"] == False) & (tracks["track_popularity"] > 50) *)
KeepMask(row) ==
    KleeneAnd(CellIsFalse(row["explicit"]), CellGT(row["track_popularity"], MinPopularity))

(* Indexing with a nullable boolean mask keeps the rows whose mask is True; *)
(* NA selects nothing.                                                      *)
Selected(row) == KeepMask(row) = BoolV(TRUE)

(* Mutant of TransformData: the filter is applied to the caller's table. *)
(* tracks["radio_mix"] = ...: the column is overwritten, or appended when  *)
(* it is new.                                                              *)
AssignRadioMix(t) ==
    LET nc == IF HasCol(t, "radio_mix") THEN t.cols ELSE Append(t.cols, "radio_mix")
    IN  MkTable(nc,
            [i \in 1..Len(t.rows) |->
                [d \in SeqSet(nc) |->
                    IF d = "radio_mix" THEN RadioMix(t.rows[i]) ELSE t.rows[i][d]]])

(* tracks[mask]: the selected rows, in order, as a new table. *)
FilterRows(t) == MkTable(t.cols, SelectSeq(t.rows, Selected))

TransformDataInPlace(t) ==
    IF t.isNone \/ ~HasCol(t, "duration_sec") \/ ~HasCol(t, "explicit")
        \/ ~HasCol(t, "track_popularity")
    THEN [result |-> None, tracks |-> t, error |-> "TypeError"]
    ELSE LET t1 == FilterRows(AssignRadioMix(t))
         IN  [result |-> t1, tracks |-> t1, error |-> "none"]

TransformData(t) ==
    IF t.isNone
    THEN [result |-> None, tracks |-> t, error |-> "TypeError"]
    ELSE IF ~HasCol(t, "duration_sec")
    THEN [result |-> None, tracks |-> t, error |-> "KeyError"]
    ELSE LET t1 == AssignRadioMix(t)
         IN  IF ~HasCol(t1, "explicit") \/ ~HasCol(t1, "track_popularity")
             THEN [result |-> None, tracks |-> t1, error |-> "KeyError"]
             ELSE [result |-> FilterRows(t1), tracks |-> t1, error |-> "none"]

----------------------------------------------------------------------------
(* The CSV files.  A dataset is a choice of rows, in file order, from the  *)
(* sample rows below, and a header for the tracks file.                    *)

(* " Song One ", "SONG two", "song THREE" *)
SongOne == <<32, 83, 111, 110, 103, 32, 79, 110, 101, 32>>
SongTwo == <<83, 79, 78, 71, 32, 116, 119, 111>>
SongThree == <<115, 111, 110, 103, 32, 84, 72, 82, 69, 69>>
(* " Label1 ", "label2", "LABEL3" *)
Label1 == <<32, 76, 97, 98, 101, 108, 49, 32>>
Label2 == <<108, 97, 98, 101, 108, 50>>
Label3 == <<76, 65, 66, 69, 76, 51>>
(* "invalid_date", "abc", "180", "250" *)
InvalidDate == <<105, 110, 118, 97, 108, 105, 100, 95, 100, 97, 116, 101>>
Abc == <<97, 98, 99>>
Txt180 == <<49, 56, 48>>
Txt250 == <<50, 53, 48>>

AlbumFileCols == <<"track_id", "track_name", "release_date", "label", "duration_sec",
                   "album_name">>

AlbumRow(id, name, date, label, dur) ==
    [c \in SeqSet(AlbumFileCols) |->
        CASE c = "track_id" -> IntV(id)
          [] c = "track_name" -> name
          [] c = "release_date" -> date
          [] c = "label" -> label
          [] c = "duration_sec" -> dur
          [] OTHER -> StrV(Abc)]

AlbumSamples == <<
    AlbumRow(1, StrV(SongOne), StrV(IsoDate(2023, 12, 31)), StrV(Label1), StrV(Txt180)),
    AlbumRow(2, StrV(SongTwo), StrV(InvalidDate), StrV(Label2), StrV(Txt250)),
    AlbumRow(3, StrV(SongThree), StrV(IsoDate(2020, 1, 1)), StrV(Label3), Null),
    AlbumRow(1, StrV(SongTwo), StrV(IsoDate(2019, 12, 31)), Null, IntV(179)),
    AlbumRow(4, StrV(SongOne), StrV(IsoDate(2023, 2, 30)), StrV(Label1), StrV(Abc)),
    AlbumRow(3, StrV(SongThree), StrV(IsoDate(2024, 1, 1)), StrV(Label1), IntV(181)) >>

TrackFileCols == <<"id", "track_id", "track_name", "release_date", "label",
                   "duration_sec", "track_popularity", "explicit">>

TrackRow(id, pop, explicit) ==
    [c \in SeqSet(TrackFileCols) |->
        CASE c \in {"id", "track_id"} -> IntV(id)
          [] c = "track_name" -> StrV(SongTwo)
          [] c = "release_date" -> StrV(IsoDate(2022, 7, 15))
          [] c = "label" -> StrV(Label2)
          [] c = "duration_sec" -> Null
          [] c = "track_popularity" -> pop
          [] OTHER -> explicit]

TrackSamples == <<
    TrackRow(1, IntV(55), BoolV(FALSE)),
    TrackRow(2, IntV(30), BoolV(TRUE)),
    TrackRow(3, IntV(80), BoolV(FALSE)),
    TrackRow(1, StrV(Abc), BoolV(FALSE)),
    TrackRow(5, IntV(90), BoolV(FALSE)),
    TrackRow(2, IntV(50), BoolV(FALSE)) >>

(* The headers a tracks file may carry: the dataset's (key named id), the  *)
(* key already named track_id, and the header of the fixtures of test.py.  *)
TrackHeaders == {
    <<"id", "track_popularity", "explicit">>,
    <<"track_id", "track_popularity", "explicit">>,
    <<"track_id", "track_name", "release_date", "label", "duration_sec",
      "track_popularity", "explicit">> }

(* The rows of `samples` at the indices in S, in order. *)
RECURSIVE Pick(_, _, _)
Pick(samples, S, i) ==
    IF i > Len(samples) THEN <<>>
    ELSE (IF i \in S THEN <<samples[i]>> ELSE <<>>) \o Pick(samples, S, i + 1)

Choices(samples, max) ==
    {S \in SUBSET (1..Len(samples)) : Cardinality(S) =< max}

AlbumTables(max) ==
    {MkTable(AlbumFileCols, Pick(AlbumSamples, S, 1)) : S \in Choices(AlbumSamples, max)}

TrackTables(max) ==
    {Project(MkTable(TrackFileCols, Pick(TrackSamples, S, 1)), h) :
        S \in Choices(TrackSamples, max), h \in TrackHeaders}

NoFiles == [state |-> "missing", albums |-> None, tracks |-> None]
CorruptFiles == [state |-> "corrupt", albums |-> None, tracks |-> None]
Files(a, t) == [state |-> "ok", albums |-> a, tracks |-> t]

Datasets ==
    {Files(a, t) : a \in AlbumTables(MaxAlbums), t \in TrackTables(MaxTracks)}
    \cup {CorruptFiles}

(* Files left by an earlier run. *)
StaleFiles ==
    Files(MkTable(AlbumFileCols, Pick(AlbumSamples, {1, 2, 3}, 1)),
          Project(MkTable(TrackFileCols, Pick(TrackSamples, {1, 2, 3}, 1)),
                  <<"id", "track_popularity", "explicit">>))

----------------------------------------------------------------------------
(* spotify.db *)

NoTable == [isNone |-> TRUE, cols |-> <<>>, rows |-> <<>>]

(* " 00:00:00": the time part of datetime.isoformat(" ") at midnight. *)
Midnight == <<32, 48, 48, 58, 48, 48, 58, 48, 48>>

(* What to_sql binds for one cell: a Timestamp goes through the sqlite3    *)
(* datetime adapter and is stored as the text "YYYY-MM-DD HH:MM:SS", a     *)
(* boolean as the integer 0 or 1, NA/NaN/NaT as NULL.                      *)
SqlCell(c) ==
    IF c.k = "date" THEN StrV(IsoDate(c.s[1], c.s[2], c.s[3]) \o Midnight)
    ELSE IF c.k = "bool" THEN IntV(c.n)
    ELSE c

SqlRows(t) ==
    [i \in 1..Len(t.rows) |-> [c \in ColSet(t) |-> SqlCell(t.rows[i][c])]]

(* Mutant of ToSqlReplace: if_exists="append". *)
ToSqlAppend(old, t) ==
    IF old.isNone THEN MkTable(t.cols, SqlRows(t))
    ELSE MkTable(old.cols, old.rows \o SqlRows(t))

(* to_sql(..., if_exists="replace", index=False): the table is dropped and *)
(* created again from the frame.                                           *)
ToSqlReplace(old, t) == MkTable(t.cols, SqlRows(t))

(* load_to_db(tracks): storeOk is whether sqlite3 can open and write the   *)
(* file.  The value is the table afterwards and the exception caught.      *)
LoadToDb(old, t, storeOk) ==
    IF ~storeOk THEN [db |-> old, error |-> "OperationalError"]
    ELSE IF t.isNone THEN [db |-> old, error |-> "AttributeError"]
    ELSE [db |-> ToSqlReplace(old, t), error |-> "none"]

----------------------------------------------------------------------------
(* The report queries of visualize_data. *)

TopLabelsLimit == 20
TopTracksLimit == 25

Min(a, b) == IF a < b THEN a ELSE b

(* The orders in which the elements of S can be listed. *)
Orders(S) ==
    {f \in [1..Cardinality(S) -> S] : \A i, j \in 1..Cardinality(S) : i # j => f[i] # f[j]}

(* release_date BETWEEN lo AND hi: NULL is never between, a number sorts   *)
(* before every text, two texts compare byte by byte.                      *)
SqlBetween(c, lo, hi) == c.k = "str" /\ TextLE(lo, c.s) /\ TextLE(c.s, hi)

RangeFrom == IsoDate(2020, 1, 1)
RangeTo == IsoDate(2023, 12, 31)

Eligible(row) == SqlBetween(row["release_date"], RangeFrom, RangeTo)

(* ORDER BY ... DESC: NULL sorts after every number. *)
SortKey(c) == IF IsNull(c) THEN -1 ELSE c.n

(* SELECT track_name, track_popularity ... WHERE release_date BETWEEN ...  *)
(* ORDER BY track_popularity DESC LIMIT 25: every result SQLite may give   *)
(* (rows of equal popularity come in any order).                           *)
TopTracks(t) ==
    LET E == {i \in 1..Len(t.rows) : Eligible(t.rows[i])}
        sorted == {f \in Orders(E) :
                    \A i \in 1..(Cardinality(E) - 1) :
                        SortKey(t.rows[f[i]]["track_popularity"])
                            >= SortKey(t.rows[f[i + 1]]["track_popularity"])}
    IN  {[j \in 1..Min(Cardinality(E), TopTracksLimit) |->
            [track_name |-> t.rows[f[j]]["track_name"],
             track_popularity |-> t.rows[f[j]]["track_popularity"]]] : f \in sorted}

(* SELECT label, COUNT of rows ... GROUP BY label ORDER BY track_count     *)
(* DESC LIMIT 20                                                           *)
TopLabels(t) ==
    LET G == {t.rows[i]["label"] : i \in 1..Len(t.rows)}
        Count(g) == Cardinality({i \in 1..Len(t.rows) : t.rows[i]["label"] = g})
        sorted == {f \in Orders(G) :
                    \A i \in 1..(Cardinality(G) - 1) : Count(f[i]) >= Count(f[i + 1])}
    IN  {[j \in 1..Min(Cardinality(G), TopLabelsLimit) |->
            [label |-> f[j], track_count |-> Count(f[j])]] : f \in sorted}

ChartFiles == <<"top_20_labels_by_track_count.png",
                "top_25_popular_tracks_between_2020_to_2023.png">>

----------------------------------------------------------------------------
(* Exceptions.  Every class below derives from Exception; a handler        *)
(* `except H` catches exc when exc is H or derives from it.                *)

Catches(handler, exc) == handler = "Exception" \/ handler = exc

(* Mutants of CleanHandler and MainHandler: a handler for one class only. *)
CleanHandlerNarrow == "ValueError"
MainHandlerNarrow == "FileNotFoundError"

DownloadHandler == "Exception"
CleanHandler == "Exception"
TransformHandler == "Exception"
PersistHandler == "Exception"
VisualizeHandler == "Exception"
MainHandler == "Exception"

(* load_data has two handlers, FileNotFoundError and Exception. *)
LoadCatches(exc) == Catches("FileNotFoundError", exc) \/ Catches("Exception", exc)
LoadMessage(exc) ==
    IF Catches("FileNotFoundError", exc) THEN "File not found" ELSE "Error loading data"

(* An exception raised in main's try block, by a stage that did not catch  *)
(* it or by main's own statements, after the messages lg: main prints it   *)
(* and returns, or the exception leaves main.                              *)
MainExcept(lg, exc) ==
    /\ pc' = "done"
    /\ IF Catches(MainHandler, exc)
       THEN log' = Append(lg, "Pipeline execution error") /\ escaped' = escaped
       ELSE log' = lg /\ escaped' = exc

(* A stage body raised exc under the stage's handler: the stage prints     *)
(* msg and returns None to main, which goes on to `next`; an exception the *)
(* handler does not catch reaches main's handler.                          *)
StageExcept(handler, exc, msg, next) ==
    IF Catches(handler, exc)
    THEN pc' = next /\ log' = Append(log, msg) /\ escaped' = escaped
    ELSE MainExcept(log, exc)

StageReturns(next) == pc' = next /\ log' = log /\ escaped' = escaped

----------------------------------------------------------------------------
(* main() *)

Stages == <<"download", "load", "clean", "transform", "persist", "visualize">>

Init ==
    /\ pc = "download"
    /\ platform \in {"nt", "posix"}
    /\ disk \in {NoFiles, StaleFiles}
    /\ albums = None
    /\ tracks = None
    /\ cleaned_tracks = None
    /\ transformed_tracks = None
    /\ db = NoTable
    /\ df_labels = <<>>
    /\ df_tracks = <<>>
    /\ charts = {}
    /\ log = <<>>
    /\ calls = <<>>
    /\ escaped = "none"

(* download_kaggle_dataset(): the files are unpacked under "data/".  The   *)
(* path load_data reads, "data\...", names those files where the           *)
(* backslash separates directories and another file elsewhere.             *)
Download ==
    /\ pc = "download"
    /\ calls' = Append(calls, "download")
    /\ \E ok \in BOOLEAN, d \in Datasets :
          IF ok
          THEN /\ disk' = IF platform = "nt" THEN d ELSE disk
               /\ pc' = "load"
               /\ log' = Append(log, "Dataset downloaded and extracted")
               /\ escaped' = escaped
          ELSE /\ disk' = disk
               /\ StageExcept(DownloadHandler, "OSError", "Error downloading dataset", "load")
    /\ UNCHANGED <<platform, albums, tracks, cleaned_tracks, transformed_tracks,
                   db, df_labels, df_tracks, charts>>

(* load_data(): the pair of tables, or None after a caught exception. *)
LoadData(files) ==
    IF files.state = "ok" THEN [ok |-> TRUE, albums |-> files.albums,
                                tracks |-> files.tracks, error |-> "none"]
    ELSE [ok |-> FALSE, albums |-> None, tracks |-> None,
          error |-> IF files.state = "missing" THEN "FileNotFoundError" ELSE "ParserError"]

(* albums, tracks = load_data() *)
Load ==
    /\ pc = "load"
    /\ calls' = Append(calls, "load")
    /\ LET r == LoadData(disk)
       IN  IF r.ok
           THEN albums' = r.albums /\ tracks' = r.tracks /\ StageReturns("clean")
           ELSE /\ albums' = albums /\ tracks' = tracks
                /\ IF LoadCatches(r.error)
                   THEN \* None is returned and cannot be unpacked
                        MainExcept(Append(log, LoadMessage(r.error)), "TypeError")
                   ELSE MainExcept(log, r.error)
    /\ UNCHANGED <<platform, disk, cleaned_tracks, transformed_tracks,
                   db, df_labels, df_tracks, charts>>

(* cleaned_tracks = clean_data(tracks, albums) *)
Clean ==
    /\ pc = "clean"
    /\ calls' = Append(calls, "clean")
    /\ LET r == CleanData(tracks, albums)
       IN  /\ tracks' = r.tracks
           /\ cleaned_tracks' = r.result
           /\ IF r.error = "none" THEN StageReturns("transform")
              ELSE StageExcept(CleanHandler, r.error, "Error cleaning data", "transform")
    /\ UNCHANGED <<platform, disk, albums, transformed_tracks,
                   db, df_labels, df_tracks, charts>>

(* transformed_tracks = transform_data(cleaned_tracks) *)
Transform ==
    /\ pc = "transform"
    /\ calls' = Append(calls, "transform")
    /\ LET r == TransformData(cleaned_tracks)
       IN  /\ cleaned_tracks' = r.tracks
           /\ transformed_tracks' = r.result
           /\ IF r.error = "none" THEN StageReturns("persist")
              ELSE StageExcept(TransformHandler, r.error, "Error transforming data", "persist")
    /\ UNCHANGED <<platform, disk, albums, tracks, db, df_labels, df_tracks, charts>>

(* load_to_db(transformed_tracks) *)
Persist ==
    /\ pc = "persist"
    /\ calls' = Append(calls, "persist")
    /\ \E storeOk \in BOOLEAN :
          LET r == LoadToDb(db, transformed_tracks, storeOk)
          IN  /\ db' = r.db
              /\ IF r.error = "none"
                 THEN /\ pc' = "visualize"
                      /\ log' = Append(log, "Data loaded into database successfully.")
                      /\ escaped' = escaped
                 ELSE StageExcept(PersistHandler, r.error,
                                  "Error loading data into database", "visualize")
    /\ UNCHANGED <<platform, disk, albums, tracks, cleaned_tracks, transformed_tracks,
                   df_labels, df_tracks, charts>>

(* visualize_data(): the two queries, then the two charts; `saved` charts  *)
(* are written before matplotlib raises, all of them when it does not.     *)
Visualize ==
    /\ pc = "visualize"
    /\ calls' = Append(calls, "visualize")
    /\ IF db.isNone
       THEN /\ UNCHANGED <<df_labels, df_tracks, charts>>
            /\ StageExcept(VisualizeHandler, "OperationalError",
                           "Error in visualization", "done")
       ELSE \E lab \in TopLabels(db), trk \in TopTracks(db), saved \in 0..Len(ChartFiles) :
               /\ df_labels' = lab
               /\ df_tracks' = trk
               /\ charts' = charts \cup SeqSet(SubSeq(ChartFiles, 1, saved))
               /\ IF saved = Len(ChartFiles) THEN StageReturns("done")
                  ELSE StageExcept(VisualizeHandler, "RuntimeError",
                                   "Error in visualization", "done")
    /\ UNCHANGED <<platform, disk, albums, tracks, cleaned_tracks, transformed_tracks, db>>

Next == Download \/ Load \/ Clean \/ Transform \/ Persist \/ Visualize

Spec == Init /\ [][Next]_vars

----------------------------------------------------------------------------
(* load_to_db called again and again on one database, as a test or a       *)
(* rerun of the pipeline does.                                             *)

MaxPersistAlbums == 2
MaxPersistCalls == 3

(* Tables to persist: outputs of clean_data and transform_data. *)
PersistInputs ==
    {TransformData(CleanData(StaleFiles.tracks, a).result).result :
        a \in AlbumTables(MaxPersistAlbums)}

InitPersist ==
    /\ pc = "persist"
    /\ platform = "nt"
    /\ disk = NoFiles
    /\ albums = None
    /\ tracks = None
    /\ cleaned_tracks = None
    /\ transformed_tracks = None
    /\ db = NoTable
    /\ df_labels = <<>>
    /\ df_tracks = <<>>
    /\ charts = {}
    /\ log = <<>>
    /\ calls = <<>>
    /\ escaped = "none"

(* transformed_data = transform_data(clean_data(...)); load_to_db(transformed_data) *)
PersistCall ==
    /\ pc = "persist"
    /\ Len(calls) < MaxPersistCalls
    /\ calls' = Append(calls, "persist")
    /\ \E t \in PersistInputs, storeOk \in BOOLEAN :
          LET r == LoadToDb(db, t, storeOk)
          IN  /\ transformed_tracks' = t
              /\ db' = r.db
              /\ log' = Append(log, IF r.error = "none"
                                    THEN "Data loaded into database successfully."
                                    ELSE "Error loading data into database")
    /\ UNCHANGED <<pc, platform, disk, albums, tracks, cleaned_tracks,
                   df_labels, df_tracks, charts, escaped>>

NextPersist == PersistCall

SpecPersist == InitPersist /\ [][NextPersist]_vars

----------------------------------------------------------------------------
(* Properties. *)

Has(q, x) == \E i \in 1..Len(q) : q[i] = x
Last(q) == q[Len(q)]
Cells(t, c) == [i \in 1..Len(t.rows) |-> t.rows[i][c]]

(* transform_data has returned a table to main. *)
Transformed == pc \in {"persist", "visualize", "done"} /\ ~transformed_tracks.isNone
(* clean_data has returned a table to main. *)
Cleaned == pc \in {"transform", "persist", "visualize", "done"} /\ ~cleaned_tracks.isNone

(* The row without the column transform_data adds. *)
InputRow(row) == [c \in (DOMAIN row) \ {"radio_mix"} |-> row[c]]
InputRows(rows) == [i \in 1..Len(rows) |-> InputRow(rows[i])]

Popular(row) ==
    /\ row["explicit"] = BoolV(FALSE)
    /\ row["track_popularity"].k = "int"
    /\ row["track_popularity"].n > 50

(* C1: transform_data returns exactly the rows of its input whose explicit *)
(* is false and whose track_popularity is not null and greater than 50, in *)
(* the input's order; a row with null popularity is never returned.        *)
C1_FilterExact ==
    Transformed =>
        InputRows(transformed_tracks.rows)
            = SelectSeq(InputRows(cleaned_tracks.rows), Popular)

(* C1 witness: the input held a non-explicit row of null popularity and an *)
(* explicit row, both left out, and a row that was kept.                   *)
C1_Witness ==
    /\ Transformed
    /\ \E i \in 1..Len(cleaned_tracks.rows) :
          /\ cleaned_tracks.rows[i]["explicit"] = BoolV(FALSE)
          /\ IsNull(cleaned_tracks.rows[i]["track_popularity"])
    /\ \E i \in 1..Len(cleaned_tracks.rows) :
          cleaned_tracks.rows[i]["explicit"] = BoolV(TRUE)
    /\ Len(transformed_tracks.rows) = 1
    /\ transformed_tracks.rows[1]["track_popularity"] = IntV(55)

(* C2: in every row of transform_data's output whose duration_sec is not   *)
(* null, radio_mix is true if and only if duration_sec <= 180.             *)
C2_RadioMixIff ==
    Transformed =>
        \A i \in 1..Len(transformed_tracks.rows) :
            LET row == transformed_tracks.rows[i]
            IN  ~IsNull(row["duration_sec"]) =>
                    /\ row["radio_mix"].k = "bool"
                    /\ (row["radio_mix"].n = 1) <=> (row["duration_sec"].n =< 180)

(* C2 witness: the output holds a row of duration exactly 180 marked       *)
(* radio_mix and a row of duration 181 not marked.                         *)
C2_Witness ==
    /\ Transformed
    /\ \E i, j \in 1..Len(transformed_tracks.rows) :
          /\ transformed_tracks.rows[i]["duration_sec"] = FloatV(180)
          /\ transformed_tracks.rows[i]["radio_mix"] = BoolV(TRUE)
          /\ transformed_tracks.rows[j]["duration_sec"] = FloatV(181)
          /\ transformed_tracks.rows[j]["radio_mix"] = BoolV(FALSE)

PersistSucceeded == log # <<>> /\ Last(log) = "Data loaded into database successfully."

(* The stored form of a cell, as read back from the table. *)
Stored(c) ==
    IF c.k = "date" THEN StrV(Digits(c.s[1], 4) \o <<45>> \o Digits(c.s[2], 2) \o <<45>>
                              \o Digits(c.s[3], 2) \o Midnight)
    ELSE IF c.k = "bool" THEN IntV(c.n)
    ELSE c

(* C3: after a successful load_to_db the table spotify_tracks holds        *)
(* exactly the columns and rows of the table passed to that call, whatever *)
(* it held before; persisting the same table again leaves it unchanged.    *)
C3_ReplaceExact ==
    /\ [](PersistSucceeded =>
            /\ ~db.isNone
            /\ db.cols = transformed_tracks.cols
            /\ Len(db.rows) = Len(transformed_tracks.rows)
            /\ \A i \in 1..Len(db.rows) : \A c \in ColSet(db) :
                  db.rows[i][c] = Stored(transformed_tracks.rows[i][c]))
    /\ [][(PersistSucceeded /\ PersistSucceeded'
            /\ transformed_tracks' = transformed_tracks) => db' = db]_vars

(* C3 witness: three successful calls in a row, the last with a one-row    *)
(* table, leave one row.                                                   *)
C3_Witness ==
    /\ Len(calls) = 3
    /\ \A i \in 1..Len(log) : log[i] = "Data loaded into database successfully."
    /\ Len(transformed_tracks.rows) = 1
    /\ Len(db.rows) = 1

(* C4: no exception leaves main(), whichever stages fail. *)
C4_NoEscape == escaped = "none"

(* C4 witness: main has returned after a failed download and a failed      *)
(* load, whose None it could not unpack.                                   *)
C4_Witness ==
    /\ pc = "done"
    /\ escaped = "none"
    /\ Has(log, "Error downloading dataset")
    /\ Has(log, "File not found")
    /\ Last(log) = "Pipeline execution error"

LoadFailed == Has(log, "File not found") \/ Has(log, "Error loading data")

(* C5 as claimed: in every run of main() every stage is invoked exactly    *)
(* once, in order, whichever stages fail.                                  *)
C5_AllStagesRun == pc = "done" => calls = Stages

(* C5 as amended: the stages are invoked in order, each at most once; a    *)
(* failure of download, clean, transform, persist or visualize is logged   *)
(* and every later stage is still invoked; but when load_data fails, main  *)
(* logs a pipeline execution error and returns without invoking clean,     *)
(* transform, persist or visualize.                                        *)
C5_StagesUnlessLoadFails ==
    /\ Len(calls) =< Len(Stages)
    /\ calls = SubSeq(Stages, 1, Len(calls))
    /\ pc = "done" =>
          IF LoadFailed
          THEN calls = <<"download", "load">> /\ Last(log) = "Pipeline execution error"
          ELSE calls = Stages

(* C5 witness: a run in which clean, transform, persist and visualize each *)
(* failed and all six stages were invoked.                                 *)
C5_Witness ==
    /\ pc = "done"
    /\ calls = Stages
    /\ Has(log, "Error cleaning data")
    /\ Has(log, "Error transforming data")
    /\ Has(log, "Error loading data into database")
    /\ Has(log, "Error in visualization")

(* C6: in every row of the table clean_data returns, release_date is a     *)
(* date or null, duration_sec a number or null, track_popularity an        *)
(* integer or null, and explicit exactly true or false.                    *)
C6_CleanTypes ==
    Cleaned =>
        \A i \in 1..Len(cleaned_tracks.rows) :
            LET row == cleaned_tracks.rows[i]
            IN  /\ row["release_date"].k \in {"date", "null"}
                /\ row["duration_sec"].k \in {"float", "null"}
                /\ row["track_popularity"].k \in {"int", "null"}
                /\ row["explicit"].k = "bool"
                /\ row["explicit"].n \in {0, 1}

(* C6 witness: the cleaned table holds the row of an album that matched no *)
(* track (null popularity, explicit true) with an unparsable date and      *)
(* duration, both null.                                                    *)
C6_Witness ==
    /\ pc = "transform"
    /\ ~cleaned_tracks.isNone
    /\ \E i \in 1..Len(cleaned_tracks.rows) :
          /\ cleaned_tracks.rows[i]["track_id"] = IntV(4)
          /\ IsNull(cleaned_tracks.rows[i]["track_popularity"])
          /\ cleaned_tracks.rows[i]["explicit"] = BoolV(TRUE)
          /\ IsNull(cleaned_tracks.rows[i]["release_date"])
          /\ IsNull(cleaned_tracks.rows[i]["duration_sec"])

(* The track identifiers of the table are pairwise different. *)
UniqueTrackIds(t) ==
    /\ HasCol(t, "track_id")
    /\ \A i, j \in 1..Len(t.rows) :
          i # j => t.rows[i]["track_id"] # t.rows[j]["track_id"]

(* Every row of the table has a text in column c. *)
AllText(t, c) == \A i \in 1..Len(t.rows) : t.rows[i][c].k = "str"

(* C7 as claimed: when track identifiers are unique, clean_data returns    *)
(* one row per album row, in the albums' order, whatever dates and         *)
(* durations the album rows hold (stated for albums and tracks tables that *)
(* have rows, every album row with a name and a label).                    *)
C7_OneRowPerAlbum ==
    (pc = "transform" /\ UniqueTrackIds(tracks)
        /\ albums.rows # <<>> /\ tracks.rows # <<>>
        /\ AllText(albums, "track_name") /\ AllText(albums, "label")) =>
        /\ ~cleaned_tracks.isNone
        /\ Cells(cleaned_tracks, "track_id") = Cells(albums, "track_id")

SharedCols == {"track_name", "release_date", "label", "duration_sec"}

(* C8 as claimed: when the tracks table carries track_name, release_date,  *)
(* label and duration_sec as the albums table does, clean_data returns a   *)
(* table with exactly one column of each of these names (stated for       *)
(* tables that have rows).                                                 *)
C8_SharedColumnsMerged ==
    (pc = "transform" /\ SharedCols \subseteq ColSet(tracks)
        /\ albums.rows # <<>> /\ tracks.rows # <<>>) =>
        /\ ~cleaned_tracks.isNone
        /\ \A c \in SharedCols :
              Cardinality({i \in 1..Len(cleaned_tracks.cols) : cleaned_tracks.cols[i] = c}) = 1

(* Calendar order of <<year, month, day>>. *)
DayLE(a, b) ==
    \/ a[1] < b[1]
    \/ a[1] = b[1] /\ a[2] < b[2]
    \/ a[1] = b[1] /\ a[2] = b[2] /\ a[3] =< b[3]

(* The release date lies in 2020-01-01 .. 2023-12-31, both days included. *)
InRange(c) ==
    /\ c.k = "date"
    /\ DayLE(<<2020, 1, 1>>, c.s)
    /\ DayLE(c.s, <<2023, 12, 31>>)

(* C9 as claimed: the second report query returns the persisted tracks     *)
(* released from 2020-01-01 to 2023-12-31, both included, at most 25 of    *)
(* them, in non-increasing order of popularity.                            *)
C9_TopTracksInclusive ==
    (pc = "done" /\ Has(log, "Data loaded into database successfully.")
        /\ ~Has(log, "Error in visualization")) =>
        LET E == {i \in 1..Len(transformed_tracks.rows) :
                    InRange(transformed_tracks.rows[i]["release_date"])}
        IN  /\ Len(df_tracks) = Min(Cardinality(E), 25)
            /\ \A j \in 1..(Len(df_tracks) - 1) :
                  df_tracks[j].track_popularity.n >= df_tracks[j + 1].track_popularity.n

(* C10 as claimed: clean_data leaves the caller's tracks and albums        *)
(* unchanged and transform_data leaves the caller's table unchanged.       *)
C10_StagesPure ==
    [][/\ pc = "clean" => (tracks' = tracks /\ albums' = albums)
       /\ pc = "transform" => cleaned_tracks' = cleaned_tracks]_vars

(* t2 is t1 with its column `id`, if any, named track_id. *)
OnlyIdRenamed(t1, t2) ==
    /\ Len(t2.cols) = Len(t1.cols)
    /\ \A i \in 1..Len(t1.cols) :
          t2.cols[i] = (IF t1.cols[i] = "id" THEN "track_id" ELSE t1.cols[i])
    /\ Len(t2.rows) = Len(t1.rows)
    /\ \A i \in 1..Len(t1.rows) : \A c \in ColSet(t1) :
          t2.rows[i][IF c = "id" THEN "track_id" ELSE c] = t1.rows[i][c]

(* t2 is t1 with the column radio_mix added and nothing else changed. *)
OnlyRadioMixAdded(t1, t2) ==
    /\ t2.cols = Append(t1.cols, "radio_mix")
    /\ Len(t2.rows) = Len(t1.rows)
    /\ \A i \in 1..Len(t1.rows) : \A c \in ColSet(t1) : t2.rows[i][c] = t1.rows[i][c]

(* C10 as amended: clean_data leaves the caller's albums unchanged and     *)
(* changes the caller's tracks only by renaming its column id to track_id  *)
(* in place; transform_data, given a table, adds the column radio_mix to   *)
(* the caller's table in place and changes nothing else of it.             *)
C10_InPlaceEffects ==
    [][/\ pc = "clean" => (albums' = albums /\ OnlyIdRenamed(tracks, tracks'))
       /\ (pc = "transform" /\ ~cleaned_tracks.isNone) =>
              OnlyRadioMixAdded(cleaned_tracks, cleaned_tracks')
       /\ (pc = "transform" /\ cleaned_tracks.isNone) =>
              cleaned_tracks' = cleaned_tracks]_vars

(* C10 witness: both calls have returned; main's tracks, read with a       *)
(* column id, now has track_id instead, and main's cleaned table has the   *)
(* column radio_mix and more rows than the table transform_data returned.  *)
C10_Witness ==
    /\ pc = "persist"
    /\ disk.state = "ok"
    /\ HasCol(disk.tracks, "id")
    /\ ~HasCol(tracks, "id")
    /\ HasCol(tracks, "track_id")
    /\ HasCol(cleaned_tracks, "radio_mix")
    /\ ~transformed_tracks.isNone
    /\ Len(cleaned_tracks.rows) > Len(transformed_tracks.rows)

====
